---- MODULE Spec2Model ----
(***************************************************************************)
(* Model of pyatecc (src/pyatecc/atecc.py): the ATECC class, a driver for  *)
(* the Microchip ATECCx08A over I2C.  The state is the position of the     *)
(* single caller inside the driver, the command being exchanged, the chip  *)
(* power state, and a history of the bus transactions of the current call. *)
(***************************************************************************)
EXTENDS Integers, Sequences, FiniteSets, TLC

\* ------------------------------------------------------------------------
\* Module constants of atecc.py
\* ------------------------------------------------------------------------
ATECC_508_VER == 80
ATECC_608_VER == 96

OP_COUNTER == 36
OP_INFO == 48
OP_NONCE == 22
OP_RANDOM == 27
OP_SHA == 71
OP_GEN_KEY == 64

\* Default of the retries parameter of _get_response
retries == 20

\* ------------------------------------------------------------------------
\* Python integer operators on non-negative integers
\* ------------------------------------------------------------------------
\* Bit i of a
Bit(a, i) == (a \div (2 ^ i)) % 2

\* Bit i of a ^ b, of a & b and of a | b, in place
XorBit(a, b, i) == ((Bit(a, i) + Bit(b, i)) % 2) * (2 ^ i)

AndBit(a, b, i) == (Bit(a, i) * Bit(b, i)) * (2 ^ i)

OrBit(a, b, i) == (IF Bit(a, i) = 1 \/ Bit(b, i) = 1 THEN 1 ELSE 0) * (2 ^ i)

\* Python's ^, & and | on integers in 0 .. 2^16 - 1: the driver's operands
\* are bytes, 16-bit checksums and a byte shifted left by 8
BitXor(a, b) ==
    XorBit(a, b, 0) + XorBit(a, b, 1) + XorBit(a, b, 2) + XorBit(a, b, 3)
    + XorBit(a, b, 4) + XorBit(a, b, 5) + XorBit(a, b, 6) + XorBit(a, b, 7)
    + XorBit(a, b, 8) + XorBit(a, b, 9) + XorBit(a, b, 10) + XorBit(a, b, 11)
    + XorBit(a, b, 12) + XorBit(a, b, 13) + XorBit(a, b, 14) + XorBit(a, b, 15)

BitAnd(a, b) ==
    AndBit(a, b, 0) + AndBit(a, b, 1) + AndBit(a, b, 2) + AndBit(a, b, 3)
    + AndBit(a, b, 4) + AndBit(a, b, 5) + AndBit(a, b, 6) + AndBit(a, b, 7)
    + AndBit(a, b, 8) + AndBit(a, b, 9) + AndBit(a, b, 10) + AndBit(a, b, 11)
    + AndBit(a, b, 12) + AndBit(a, b, 13) + AndBit(a, b, 14) + AndBit(a, b, 15)

BitOr(a, b) ==
    OrBit(a, b, 0) + OrBit(a, b, 1) + OrBit(a, b, 2) + OrBit(a, b, 3)
    + OrBit(a, b, 4) + OrBit(a, b, 5) + OrBit(a, b, 6) + OrBit(a, b, 7)
    + OrBit(a, b, 8) + OrBit(a, b, 9) + OrBit(a, b, 10) + OrBit(a, b, 11)
    + OrBit(a, b, 12) + OrBit(a, b, 13) + OrBit(a, b, 14) + OrBit(a, b, 15)

ShiftLeft(a, n) == a * (2 ^ n)

ShiftRight(a, n) == a \div (2 ^ n)

\* Python slice seq[lo:hi] with 0-based lo (inclusive) and hi (exclusive),
\* both already clipped to 0..len
Slice(seq, lo, hi) == SubSeq(seq, lo + 1, hi)

\* ------------------------------------------------------------------------
\* _at_crc
\* ------------------------------------------------------------------------
polynom == 32773

\* One step of the checksum as it would be with the bits of a byte taken
\* most significant first
CrcBit_msb_first(crc, b, shift) ==
    LET data_bit == IF BitAnd(b, ShiftLeft(1, 7 - shift)) # 0 THEN 1 ELSE 0
        crc_bit == ShiftRight(crc, 15) % 2
        shifted == ShiftLeft(crc, 1) % 65536
    IN IF data_bit # crc_bit THEN BitXor(shifted, polynom) % 65536 ELSE shifted

\* The body of the inner loop "for shift in range(8)" for one bit of byte b
CrcBit(crc, b, shift) ==
    LET data_bit == IF BitAnd(b, ShiftLeft(1, shift)) # 0 THEN 1 ELSE 0
        crc_bit == ShiftRight(crc, 15) % 2
        shifted == ShiftLeft(crc, 1) % 65536
    IN IF data_bit # crc_bit
       THEN BitXor(shifted, polynom) % 65536
       ELSE shifted

\* The two nested loops "for b in data: for shift in range(8)" run the body
\* 8 * len(data) times; step k (from 0) is bit k % 8 of byte k \div 8.
\* CrcSteps runs steps lo..hi.  The range is split in halves and the result
\* of the first half is bound to a value before the second half starts, so
\* that the evaluation stays shallow however long data is
RECURSIVE CrcSteps(_, _, _, _)
CrcSteps(crc, data, lo, hi) ==
    IF lo = hi THEN CrcBit(crc, data[(lo \div 8) + 1], lo % 8)
    ELSE LET mid == (lo + hi) \div 2
         IN CHOOSE c \in {CrcSteps(left, data, mid + 1, hi) :
                             left \in {CrcSteps(crc, data, lo, mid)}} : TRUE

at_crc(data) ==
    IF Len(data) = 0 THEN 0
    ELSE CrcSteps(0, data, 0, 8 * Len(data) - 1) % 65536

\* ------------------------------------------------------------------------
\* State
\* ------------------------------------------------------------------------
VARIABLES
    pc,        \* position of the caller inside the driver
    call,      \* the public call in progress, or the last one completed
    frame,     \* the command-level method in progress and its locals
    cmd,       \* arguments of the pending _send_command / _get_response
    attempts,  \* iterations of the polling loop of _get_response done so far
    response,  \* the bytes of the last successful bus read of this call
    payload,   \* the value returned by the last _get_response
    ret,       \* the value a command-level method handed back to its caller
    acc,       \* locals of a public method that makes several exchanges
    result,    \* outcome of the public call: none (running), ok or error
    power,     \* chip power state: Sleeping, Idle or Awake
    log,       \* bus transactions of this call, by kind, in order
    sent,      \* command packets handed to the bus during this call
    lastRead,  \* size and outcome of the last bus read attempt, and whose
               \* command the bytes read answer
    chip,      \* the caller whose command the chip received last: the
               \* response the chip holds answers that command
    other,     \* a second caller using the same device: its position in
               \* its own operation and whose response it has read
    serialized \* whether the two callers serialize whole operations

vars == <<pc, call, frame, cmd, attempts, response, payload, ret, acc,
          result, power, log, sent, lastRead, chip, other, serialized>>

\* Python's None
None == "None"

NoCall == [name |-> "none"]
NoFrame == [fn |-> "none"]
NoCmd == [opcode |-> 0, param_1 |-> 0, param_2 |-> 0, data |-> <<>>, length |-> 0]
NoResult == [status |-> "none", value |-> None, exc |-> ""]
NoRead == [n |-> 0, outcome |-> "none", of |-> "none"]
AtRest == [pc |-> "rest", of |-> "none"]

\* The current state as a record; the methods below are written as functions
\* from such a record to the record after the code has run
Cur ==
    [pc |-> pc, call |-> call, frame |-> frame, cmd |-> cmd,
     attempts |-> attempts, response |-> response, payload |-> payload,
     ret |-> ret, acc |-> acc, result |-> result, power |-> power,
     log |-> log, sent |-> sent, lastRead |-> lastRead, chip |-> chip]

Become(st) ==
    /\ pc' = st.pc
    /\ call' = st.call
    /\ frame' = st.frame
    /\ cmd' = st.cmd
    /\ attempts' = st.attempts
    /\ response' = st.response
    /\ payload' = st.payload
    /\ ret' = st.ret
    /\ acc' = st.acc
    /\ result' = st.result
    /\ power' = st.power
    /\ log' = st.log
    /\ sent' = st.sent
    /\ lastRead' = st.lastRead
    /\ chip' = st.chip
    /\ UNCHANGED <<other, serialized>>

\* A public method is entered: the histories of the previous call are dropped
Enter(st, c) ==
    [st EXCEPT !.call = c, !.result = NoResult, !.log = <<>>, !.sent = <<>>,
               !.response = <<>>, !.lastRead = NoRead]

\* An exception leaves every frame: no method of the class catches one
\* (except wakeup, which swallows the failure of its own write)
Raise(st, exc) ==
    [st EXCEPT !.pc = "ready",
               !.result = [status |-> "error", value |-> None, exc |-> exc],
               !.frame = NoFrame, !.cmd = NoCmd, !.attempts = 0,
               !.payload = <<>>, !.ret = None, !.acc = <<>>]

\* The public method returns value v to its caller
Return(st, v) ==
    [st EXCEPT !.pc = "ready",
               !.result = [status |-> "ok", value |-> v, exc |-> ""],
               !.frame = NoFrame, !.cmd = NoCmd, !.attempts = 0,
               !.payload = <<>>, !.ret = None, !.acc = <<>>]

\* A command-level method returns v: to the user when it is the public call
\* itself, otherwise to the public method that called it
ReturnFrom(st, fn, v) ==
    IF st.call.name = fn
    THEN Return(st, v)
    ELSE [st EXCEPT !.pc = "ret", !.ret = v, !.frame = NoFrame,
                    !.cmd = NoCmd, !.payload = <<>>, !.response = <<>>]

Raised(st) == st.result.status = "error"

\* Outcomes of a bus write (i2c_rdwr / write_byte_data): done, or OSError
WriteOutcomes == {"ok", "oserror"}

\* ------------------------------------------------------------------------
\* wakeup, idle, sleep
\* ------------------------------------------------------------------------
\* The write to address 0 is expected to fail and its failure is swallowed:
\* both outcomes leave the driver in the same state
wakeup(st) ==
    [st EXCEPT !.log = Append(@, "wake"), !.power = "Awake"]

idle(st, o) ==
    LET st1 == [st EXCEPT !.log = Append(@, "idle")]
    IN IF o = "oserror"
       THEN Raise(st1, "OSError")
       ELSE [st1 EXCEPT !.power = IF @ = "Awake" THEN "Idle" ELSE @]

sleep(st, o) ==
    LET st1 == [st EXCEPT !.log = Append(@, "sleep")]
    IN IF o = "oserror"
       THEN Raise(st1, "OSError")
       ELSE [st1 EXCEPT !.power = IF @ = "Awake" THEN "Sleeping" ELSE @]

\* ------------------------------------------------------------------------
\* _send_command
\* ------------------------------------------------------------------------
\* The packet as it would be with a count that leaves out the count byte
\* itself and the two bytes of param_2
command_packet_short_count(opcode, param_1, param_2, data) ==
    LET n == 8 + Len(data)
        head == <<3, 3 + Len(data) + 2, opcode, param_1, BitAnd(param_2, 255),
                  ShiftRight(param_2, 8)>> \o data
        crc == at_crc(Slice(head \o <<0, 0>>, 1, n - 2))
    IN head \o <<BitAnd(crc, 255), ShiftRight(crc, 8)>>

\* The packet as it would be with a checksum that takes in the 0x03 marker
command_packet_crc_with_marker(opcode, param_1, param_2, data) ==
    LET n == 8 + Len(data)
        head == <<3, n - 1, opcode, param_1, BitAnd(param_2, 255),
                  ShiftRight(param_2, 8)>> \o data
        crc == at_crc(Slice(head \o <<0, 0>>, 0, n - 2))
    IN head \o <<BitAnd(crc, 255), ShiftRight(crc, 8)>>

\* The command packet assembled by _send_command
command_packet(opcode, param_1, param_2, data) ==
    LET n == 8 + Len(data)
        head == <<3, n - 1, opcode, param_1, BitAnd(param_2, 255),
                  ShiftRight(param_2, 8)>> \o data
        crc == at_crc(Slice(head \o <<0, 0>>, 1, n - 2))
    IN head \o <<BitAnd(crc, 255), ShiftRight(crc, 8)>>

\* Arguments of a _send_command call followed by _get_response(length)
Command(opcode, param_1, param_2, data, length) ==
    [opcode |-> opcode, param_1 |-> param_1, param_2 |-> param_2,
     data |-> data, length |-> length]

\* The caller has done its own wakeup and calls _send_command next
ToSend(st, fr, c) ==
    [st EXCEPT !.pc = "send", !.frame = fr, !.cmd = c]

\* _send_command as it would be if it built the packet and never wrote it
send_command_no_write(st, o) ==
    LET pkt == command_packet(st.cmd.opcode, st.cmd.param_1, st.cmd.param_2,
                              st.cmd.data)
        st1 == wakeup(st)
        st2 == [st1 EXCEPT !.log = Append(@, "cmd"),
                           !.sent = Append(@, [opcode |-> st.cmd.opcode,
                                               param_1 |-> st.cmd.param_1,
                                               param_2 |-> st.cmd.param_2,
                                               data |-> st.cmd.data,
                                               packet |-> pkt])]
    IN [st2 EXCEPT !.pc = "wake_resp"]

send_command(st, o) ==
    LET pkt == command_packet(st.cmd.opcode, st.cmd.param_1, st.cmd.param_2,
                              st.cmd.data)
        st1 == wakeup(st)
        st2 == [st1 EXCEPT !.log = Append(@, "cmd"),
                           !.sent = Append(@, [opcode |-> st.cmd.opcode,
                                               param_1 |-> st.cmd.param_1,
                                               param_2 |-> st.cmd.param_2,
                                               data |-> st.cmd.data,
                                               packet |-> pkt])]
    IN IF o = "oserror"
       THEN Raise(st2, "OSError")
       ELSE [st2 EXCEPT !.pc = "wake_resp", !.chip = "first"]

SendCommand ==
    /\ pc = "send"
    /\ \E o \in WriteOutcomes : Become(send_command(Cur, o))

\* ------------------------------------------------------------------------
\* What a bus read can deliver
\* ------------------------------------------------------------------------
Fill(n, b) == [i \in 1..n |-> b]

Ramp(n) == [i \in 1..n |-> (7 * i + 3) % 256]

\* Payloads the chip may answer with, by payload length
Payloads(n) ==
    CASE n = 1 -> {<<0>>, <<15>>}
      [] n = 4 -> {<<0, 0, 96, 2>>, <<0, 0, 80, 0>>, <<1, 35, 0, 0>>,
                  <<96, 80, 1, 96>>}
      [] n = 32 -> {Fill(32, 1), Ramp(32)}
      [] n = 64 -> {Ramp(64)}
      [] OTHER -> {}

\* A well-formed response frame of the chip: count byte, payload, checksum of
\* count byte and payload, low byte first
ChipFrame(p) ==
    LET body == <<Len(p) + 3>> \o p
        crc == at_crc(body)
    IN body \o <<crc % 256, crc \div 256>>

\* Frame f with the byte at position i changed in its lowest bit
Damaged(f, i) == [f EXCEPT ![i] = BitXor(@, 1)]

\* Frame f with its two checksum bytes exchanged
Swapped(f) ==
    [f EXCEPT ![Len(f) - 1] = f[Len(f)], ![Len(f)] = f[Len(f) - 1]]

\* A 4-byte status frame read with a longer buffer: the bus pads with 0xFF
Padded(f, n) == [i \in 1..n |-> IF i <= Len(f) THEN f[i] ELSE 255]

\* Every byte sequence a successful read of n bytes may deliver in the model:
\* the chip's frames, frames damaged on the wire, a bus held low (all zero),
\* and a short status frame where a longer answer was expected
ReadTable ==
    [n \in {4, 7, 35, 67} |->
        LET good == {ChipFrame(p) : p \in Payloads(n - 3)}
            g == ChipFrame(CHOOSE p \in Payloads(n - 3) : p[1] # 0 \/ n = 67)
            bad == {Damaged(g, 1), Damaged(g, 2), Damaged(g, n - 1),
                    Damaged(g, n), Swapped(g)}
        IN good \cup bad \cup {Fill(n, 0)} \cup
           (IF n > 4 THEN {Padded(ChipFrame(<<15>>), n)} ELSE {})]

Readable(n) ==
    IF n \in DOMAIN ReadTable THEN ReadTable[n] ELSE {Fill(n, 0), Fill(n, 255)}

\* ------------------------------------------------------------------------
\* _get_response
\* ------------------------------------------------------------------------
\* Number of bytes asked from the bus for a response of the given length
read_size(length) == length + 3

\* The caller's wait for the execution time, then the wakeup that opens
\* _get_response
get_response_wakeup(st) ==
    [wakeup(st) EXCEPT !.pc = "read", !.attempts = 0]

GetResponseWake ==
    /\ pc = "wake_resp"
    /\ Become(get_response_wakeup(Cur))

\* The retry loop as it would be with one attempt too many
read_oserror_one_more(st) ==
    LET st1 == [st EXCEPT !.attempts = @ + 1,
                          !.lastRead = [n |-> read_size(st.cmd.length),
                                        outcome |-> "oserror", of |-> "none"]]
    IN IF st1.attempts <= retries
       THEN st1
       ELSE Raise(st1, "RuntimeError: Failed to read data from chip")

\* The retry loop as it would be if a failed read made it send the command
\* again
read_oserror_resend(st) ==
    LET st1 == [st EXCEPT !.attempts = @ + 1,
                          !.lastRead = [n |-> read_size(st.cmd.length),
                                        outcome |-> "oserror", of |-> "none"],
                          !.log = Append(@, "cmd"),
                          !.sent = Append(@, st.sent[Len(st.sent)])]
    IN IF st1.attempts < retries
       THEN st1
       ELSE Raise(st1, "RuntimeError: Failed to read data from chip")

\* One iteration of "for _ in range(retries)": the read raises OSError
read_oserror(st) ==
    LET st1 == [st EXCEPT !.attempts = @ + 1,
                          !.lastRead = [n |-> read_size(st.cmd.length),
                                        outcome |-> "oserror", of |-> "none"]]
    IN IF st1.attempts < retries
       THEN st1
       ELSE Raise(st1, "RuntimeError: Failed to read data from chip")

\* One iteration: the read raises something that is not an OSError
read_other(st) ==
    Raise([st EXCEPT !.attempts = @ + 1,
                     !.lastRead = [n |-> read_size(st.cmd.length),
                                   outcome |-> "other", of |-> "none"]],
          "Exception")

\* One iteration: the read delivers r, and the loop is left by break
read_ok(st, r) ==
    [st EXCEPT !.attempts = 0,
               !.lastRead = [n |-> read_size(st.cmd.length), outcome |-> "ok",
                             of |-> st.chip],
               !.response = r,
               !.log = Append(@, "resp"),
               !.pc = "validate"]

ReadAttempt ==
    /\ pc = "read"
    /\ attempts < retries
    /\ \/ Become(read_oserror(Cur))
       \/ Become(read_other(Cur))
       \/ \E r \in Readable(read_size(cmd.length)) : Become(read_ok(Cur, r))

\* The carried checksum as it would be read high byte first
response_crc_high_first(r) == BitOr(r[Len(r)], ShiftLeft(r[Len(r) - 1], 8))

\* The checksum carried by the response and the one computed from it
response_crc(r) == BitOr(r[Len(r) - 1], ShiftLeft(r[Len(r)], 8))

\* The recomputed checksum as it would be if the count byte were left out
response_crc2_without_count(r) == at_crc(Slice(r, 1, Len(r) - 2))

response_crc2(r) == at_crc(Slice(r, 0, Len(r) - 2))

\* What _get_response returns of an accepted response
response_payload(r) == Slice(r, 1, Len(r) - 2)

\* The checksum comparison and the return of _get_response
check_response(st) ==
    IF response_crc(st.response) # response_crc2(st.response)
    THEN Raise(st, "RuntimeError: CRC Mismatch")
    ELSE [st EXCEPT !.payload = response_payload(st.response),
                    !.pc = "finish"]

CheckResponse ==
    /\ pc = "validate"
    /\ Become(check_response(Cur))

\* ------------------------------------------------------------------------
\* Arguments the caller may pass
\* ------------------------------------------------------------------------
Zones == {0, 1}

\* An optional integer argument: <<>> is None, <<v>> is the integer v
InfoParams == {<<>>, <<0>>, <<1>>}

NonceData == {Fill(20, 17), Fill(32, 34), Fill(19, 1)}

NonceModes == {0, 1, 2, 3}

NonceZeros == {0, 1}

CounterIds == {0, 1}

RandomArgs == {<<0, 0>>, <<5, 5>>, <<10, 3>>, <<0, 10>>, <<5, 0>>, <<3, 8>>,
               <<2, -1>>}

ShaMessages == {<<>>, <<7>>, Fill(64, 165), Fill(128, 1)}

\* The message argument of sha_digest: None, an int, a bytearray or bytes
DigestMessages ==
    {[kind |-> "none", val |-> <<>>],
     [kind |-> "int", val |-> <<0>>],
     [kind |-> "int", val |-> <<300>>],
     [kind |-> "bytearray", val |-> <<>>],
     [kind |-> "bytearray", val |-> <<1, 2, 3>>],
     [kind |-> "bytes", val |-> <<1, 2, 3>>]}

MaxSlot == 5

Slots == -1..MaxSlot

SignSlots == {0, 2}

SignMessages == {Fill(32, 34), Fill(20, 17)}

ConfigData == {Ramp(128), Ramp(100)}

\* ------------------------------------------------------------------------
\* lock, lock_all_zones
\* ------------------------------------------------------------------------
\* lock up to its _send_command
lock_begin(st, zone) ==
    ToSend(wakeup(st), [fn |-> "lock", zone |-> zone],
           Command(23, BitOr(128, zone), 0, <<>>, 1))

\* lock as it would be without the assertion on the status byte
lock_end_unchecked(st, o) ==
    LET st1 == idle(st, o)
    IN IF Raised(st1) THEN st1 ELSE ReturnFrom(st1, "lock", None)

\* lock after its _get_response
lock_end(st, o) ==
    IF st.payload[1] # 0
    THEN Raise(st, "AssertionError: Failed locking ATECC!")
    ELSE LET st1 == idle(st, o)
         IN IF Raised(st1) THEN st1 ELSE ReturnFrom(st1, "lock", None)

Call_lock ==
    /\ pc = "ready"
    /\ \E zone \in Zones :
         Become(lock_begin(Enter(Cur, [name |-> "lock", zone |-> zone]), zone))

Finish_lock ==
    /\ pc = "finish"
    /\ frame.fn = "lock"
    /\ \E o \in WriteOutcomes : Become(lock_end(Cur, o))

Call_lock_all_zones ==
    /\ pc = "ready"
    /\ Become(lock_begin([Enter(Cur, [name |-> "lock_all_zones"])
                             EXCEPT !.acc = <<0>>], 0))

\* lock_all_zones after lock(0), and after lock(1)
lock_all_zones_next(st) ==
    IF st.acc = <<0>>
    THEN lock_begin([st EXCEPT !.acc = <<1>>], 1)
    ELSE Return(st, None)

Resume_lock_all_zones ==
    /\ pc = "ret"
    /\ call.name = "lock_all_zones"
    /\ Become(lock_all_zones_next(Cur))

\* ------------------------------------------------------------------------
\* info, version, __init__
\* ------------------------------------------------------------------------
info_begin(st, mode, param) ==
    ToSend(wakeup(st), [fn |-> "info"],
           IF param = <<>> \/ param = <<0>>
           THEN Command(OP_INFO, mode, 0, <<>>, 4)
           ELSE Command(OP_INFO, mode, param[1], <<>>, 4))

\* info as it would be if it returned without idling the chip
info_end_no_idle(st, o) == ReturnFrom(st, "info", st.payload)

info_end(st, o) ==
    LET st1 == idle(st, o)
    IN IF Raised(st1) THEN st1 ELSE ReturnFrom(st1, "info", st.payload)

Call_info ==
    /\ pc = "ready"
    /\ \E param \in InfoParams :
         Become(info_begin(Enter(Cur, [name |-> "info", mode |-> 0,
                                       param |-> param]), 0, param))

Finish_info ==
    /\ pc = "finish"
    /\ frame.fn = "info"
    /\ \E o \in WriteOutcomes : Become(info_end(Cur, o))

\* version up to the _send_command of info(0x00)
version_begin(st, o) ==
    LET st1 == idle(wakeup(st), o)
    IN IF Raised(st1) THEN st1 ELSE info_begin(st1, 0, <<>>)

\* The version as it would be if formed from the bytes one place too early
version_value_one_early(vers) == BitOr(ShiftLeft(vers[2], 8), vers[3])

\* The value version computes from the payload of info
version_value(vers) == BitOr(ShiftLeft(vers[3], 8), vers[4])

Call_version ==
    /\ pc = "ready"
    /\ \E o \in WriteOutcomes :
         Become(version_begin(Enter(Cur, [name |-> "version"]), o))

Resume_version ==
    /\ pc = "ret"
    /\ call.name = "version"
    /\ Become(Return(Cur, version_value(ret)))

\* __init__ up to the _send_command of info(0x00)
init_begin(st, o) == version_begin(wakeup(st), o)

\* __init__ after self.version has been computed
init_end(st) ==
    IF ShiftRight(version_value(st.ret), 8) \notin {ATECC_508_VER, ATECC_608_VER}
    THEN Raise(st, "RuntimeError: Failed to find 608 or 508 chip. Please check your wiring.")
    ELSE Return(st, None)

Call_init ==
    /\ pc = "ready"
    /\ \E o \in WriteOutcomes :
         Become(init_begin(Enter(Cur, [name |-> "__init__"]), o))

Resume_init ==
    /\ pc = "ret"
    /\ call.name = "__init__"
    /\ Become(init_end(Cur))

\* ------------------------------------------------------------------------
\* nonce
\* ------------------------------------------------------------------------
nonce_begin(st, data, mode, zero) ==
    LET st1 == wakeup(st)
        fr == [fn |-> "nonce", mode |-> mode]
    IN IF mode \in {0, 1}
       THEN IF zero = 0 /\ Len(data) # 20
            THEN Raise(st1, "AssertionError: Data value must be 20 bytes long.")
            ELSE ToSend(st1, fr, Command(OP_NONCE, mode, zero, data, 32))
       ELSE IF mode = 3
       THEN IF Len(data) # 32
            THEN Raise(st1, "AssertionError: Data value must be 32 bytes long.")
            ELSE ToSend(st1, fr, Command(OP_NONCE, mode, zero, data, 1))
       ELSE Raise(st1, "RuntimeError: Invalid mode specified!")

\* nonce as it would be without the assertion on the pass-through status
nonce_end_unchecked(st, o) ==
    LET st1 == idle(st, o)
    IN IF Raised(st1) THEN st1 ELSE ReturnFrom(st1, "nonce", st.payload)

nonce_end(st, o) ==
    IF st.frame.mode = 3 /\ st.payload[1] # 0
    THEN Raise(st, "AssertionError: Incorrectly calculated nonce in pass-thru mode")
    ELSE LET st1 == idle(st, o)
         IN IF Raised(st1) THEN st1 ELSE ReturnFrom(st1, "nonce", st.payload)

Call_nonce ==
    /\ pc = "ready"
    /\ \E data \in NonceData, mode \in NonceModes, zero \in NonceZeros :
         Become(nonce_begin(Enter(Cur, [name |-> "nonce", data |-> data,
                                        mode |-> mode, zero |-> zero]),
                            data, mode, zero))

Finish_nonce ==
    /\ pc = "finish"
    /\ frame.fn = "nonce"
    /\ \E o \in WriteOutcomes : Become(nonce_end(Cur, o))

\* ------------------------------------------------------------------------
\* counter
\* ------------------------------------------------------------------------
\* counter as it would be if the caller's counter id were used
counter_begin_with_id(st, counter_arg, increment_counter) ==
    LET counter == IF counter_arg = 1 THEN 1 ELSE counter_arg
    IN ToSend(wakeup(st), [fn |-> "counter"],
              IF increment_counter
              THEN Command(OP_COUNTER, 1, counter, <<>>, 4)
              ELSE Command(OP_COUNTER, 0, counter, <<>>, 4))

\* The argument counter is overwritten with 0 on entry
counter_begin(st, counter_arg, increment_counter) ==
    LET counter0 == 0
        counter == IF counter0 = 1 THEN 1 ELSE counter0
    IN ToSend(wakeup(st), [fn |-> "counter"],
              IF increment_counter
              THEN Command(OP_COUNTER, 1, counter, <<>>, 4)
              ELSE Command(OP_COUNTER, 0, counter, <<>>, 4))

counter_end(st, o) ==
    LET st1 == idle(st, o)
    IN IF Raised(st1) THEN st1 ELSE ReturnFrom(st1, "counter", st.payload)

Call_counter ==
    /\ pc = "ready"
    /\ \E c \in CounterIds, inc \in BOOLEAN :
         Become(counter_begin(Enter(Cur, [name |-> "counter", counter |-> c,
                                          increment_counter |-> inc]), c, inc))

Finish_counter ==
    /\ pc = "finish"
    /\ frame.fn = "counter"
    /\ \E o \in WriteOutcomes : Become(counter_end(Cur, o))

\* ------------------------------------------------------------------------
\* random, _random
\* ------------------------------------------------------------------------
RECURSIVE SumBytes(_, _)
SumBytes(r, k) == IF k = 0 THEN 0 ELSE r[k] + SumBytes(r, k - 1)

Min(a, b) == IF a < b THEN a ELSE b

\* One pass of the while loop of _random, up to its _send_command
random_loop(st, data, data_len) ==
    ToSend(st, [fn |-> "_random", data |-> data, data_len |-> data_len],
           Command(OP_RANDOM, 0, 0, <<>>, 32))

\* _random from its entry: wakeup, then the loop while data_len is not 0
random_begin_(st, data) ==
    LET st1 == wakeup(st)
    IN IF Len(data) # 0
       THEN random_loop(st1, data, Len(data))
       ELSE st1

\* _random after a _get_response: copy, count down, loop or idle and return
random_end_(st, o) ==
    LET copy_len == Min(32, st.frame.data_len)
        data == Slice(st.payload, 0, copy_len)
        data_len == st.frame.data_len - copy_len
    IN IF data_len # 0
       THEN random_loop(st, data, data_len)
       ELSE LET st1 == idle(st, o)
            IN IF Raised(st1) THEN st1 ELSE ReturnFrom(st1, "_random", data)

\* random up to the call of _random
random_begin(st, rnd_min_arg, rnd_max) ==
    LET rnd_min == IF rnd_max # 0 THEN 0 ELSE rnd_min_arg
    IN IF rnd_min >= rnd_max
       THEN Return(st, rnd_min)
       ELSE random_begin_([st EXCEPT !.acc = <<rnd_min, rnd_max>>], Fill(16, 0))

\* random after _random has returned r
random_end(st) ==
    LET rnd_min == st.acc[1]
        rnd_max == st.acc[2]
        delta == rnd_max - rnd_min
        r == st.ret
        sum == SumBytes(r, Len(r))
        data == (IF sum < 0 THEN -sum ELSE sum) % delta
    IN Return(st, data + rnd_min)

Call_random ==
    /\ pc = "ready"
    /\ \E a \in RandomArgs :
         Become(random_begin(Enter(Cur, [name |-> "random", rnd_min |-> a[1],
                                         rnd_max |-> a[2]]), a[1], a[2]))

Finish_random_ ==
    /\ pc = "finish"
    /\ frame.fn = "_random"
    /\ \E o \in WriteOutcomes : Become(random_end_(Cur, o))

Resume_random ==
    /\ pc = "ret"
    /\ call.name = "random"
    /\ Become(random_end(Cur))

\* ------------------------------------------------------------------------
\* sha_start, sha_update, sha_digest
\* ------------------------------------------------------------------------
sha_start_begin(st) ==
    ToSend(wakeup(st), [fn |-> "sha_start"], Command(OP_SHA, 0, 0, <<>>, 1))

sha_start_end(st, o) ==
    IF st.payload[1] # 0
    THEN Raise(st, "AssertionError: Error during sha_start.")
    ELSE LET st1 == idle(st, o)
         IN IF Raised(st1) THEN st1 ELSE ReturnFrom(st1, "sha_start", st.payload)

Call_sha_start ==
    /\ pc = "ready"
    /\ Become(sha_start_begin(Enter(Cur, [name |-> "sha_start"])))

Finish_sha_start ==
    /\ pc = "finish"
    /\ frame.fn = "sha_start"
    /\ \E o \in WriteOutcomes : Become(sha_start_end(Cur, o))

sha_update_begin(st, message) ==
    ToSend(wakeup(st), [fn |-> "sha_update"], Command(OP_SHA, 1, 64, message, 1))

sha_update_end(st, o) ==
    IF st.payload[1] # 0
    THEN Raise(st, "AssertionError: Error during SHA Update")
    ELSE LET st1 == idle(st, o)
         IN IF Raised(st1) THEN st1 ELSE ReturnFrom(st1, "sha_update", st.payload)

Call_sha_update ==
    /\ pc = "ready"
    /\ \E message \in ShaMessages :
         Become(sha_update_begin(Enter(Cur, [name |-> "sha_update",
                                             message |-> message]), message))

Finish_sha_update ==
    /\ pc = "finish"
    /\ frame.fn = "sha_update"
    /\ \E o \in WriteOutcomes : Become(sha_update_end(Cur, o))

\* struct.pack("B", v): defined for an int in 0..255 only
pack_B_fails(message) ==
    \/ message.kind = "bytes"
    \/ message.kind = "int" /\ message.val[1] \notin 0..255

sha_digest_begin(st, message) ==
    IF message.kind \in {"int", "bytes"} /\ pack_B_fails(message)
    THEN Raise(st, "struct.error")
    ELSE LET st1 == wakeup(st)
             fr == [fn |-> "sha_digest"]
         IN IF Len(message.val) # 0
            THEN ToSend(st1, fr, Command(OP_SHA, 2, Len(message.val), message.val, 32))
            ELSE ToSend(st1, fr, Command(OP_SHA, 2, 0, <<>>, 32))

\* sha_digest as it would be if, like sha_start and sha_update, it took the
\* first byte of the response for a status and returned the rest unchecked
sha_digest_end_status_first(st, o) ==
    LET digest == st.payload
    IN IF digest[1] # 0
       THEN Raise(st, "AssertionError: SHA response length does not match expected length.")
       ELSE LET st1 == idle(st, o)
            IN IF Raised(st1) THEN st1
               ELSE ReturnFrom(st1, "sha_digest", Slice(digest, 1, Len(digest)))

sha_digest_end(st, o) ==
    LET digest == st.payload
    IN IF Len(digest) # 32
       THEN Raise(st, "AssertionError: SHA response length does not match expected length.")
       ELSE LET st1 == idle(st, o)
            IN IF Raised(st1) THEN st1
               ELSE ReturnFrom(st1, "sha_digest", digest)

Call_sha_digest ==
    /\ pc = "ready"
    /\ \E message \in DigestMessages :
         Become(sha_digest_begin(Enter(Cur, [name |-> "sha_digest",
                                             message |-> message]), message))

Finish_sha_digest ==
    /\ pc = "finish"
    /\ frame.fn = "sha_digest"
    /\ \E o \in WriteOutcomes : Become(sha_digest_end(Cur, o))

\* ------------------------------------------------------------------------
\* gen_key, sign, ecdsa_sign
\* ------------------------------------------------------------------------
\* gen_key as it would be with the wakeup placed before the slot assertion
gen_key_begin_wake_first(st, slot_num, private_key) ==
    IF ~(0 <= slot_num /\ slot_num <= 4)
    THEN Raise(wakeup(st), "AssertionError: Provided slot must be between 0 and 4.")
    ELSE ToSend(wakeup(st), [fn |-> "gen_key"],
                IF private_key
                THEN Command(OP_GEN_KEY, 4, slot_num, <<>>, 64)
                ELSE Command(OP_GEN_KEY, 0, slot_num, <<>>, 64))

gen_key_begin(st, slot_num, private_key) ==
    IF ~(0 <= slot_num /\ slot_num <= 4)
    THEN Raise(st, "AssertionError: Provided slot must be between 0 and 4.")
    ELSE ToSend(wakeup(st), [fn |-> "gen_key"],
                IF private_key
                THEN Command(OP_GEN_KEY, 4, slot_num, <<>>, 64)
                ELSE Command(OP_GEN_KEY, 0, slot_num, <<>>, 64))

gen_key_end(st, o) ==
    LET st1 == idle(st, o)
    IN IF Raised(st1) THEN st1 ELSE ReturnFrom(st1, "gen_key", st.payload)

Call_gen_key ==
    /\ pc = "ready"
    /\ \E slot_num \in Slots, private_key \in BOOLEAN :
         Become(gen_key_begin(Enter(Cur, [name |-> "gen_key",
                                          slot_num |-> slot_num,
                                          private_key |-> private_key]),
                              slot_num, private_key))

Finish_gen_key ==
    /\ pc = "finish"
    /\ frame.fn = "gen_key"
    /\ \E o \in WriteOutcomes : Become(gen_key_end(Cur, o))

sign_begin(st, slot_id) ==
    ToSend(wakeup(st), [fn |-> "sign"], Command(65, 128, slot_id, <<>>, 64))

sign_end(st, o) ==
    LET st1 == idle(st, o)
    IN IF Raised(st1) THEN st1 ELSE ReturnFrom(st1, "sign", st.payload)

Call_sign ==
    /\ pc = "ready"
    /\ \E slot_id \in SignSlots :
         Become(sign_begin(Enter(Cur, [name |-> "sign", slot_id |-> slot_id]),
                           slot_id))

Finish_sign ==
    /\ pc = "finish"
    /\ frame.fn = "sign"
    /\ \E o \in WriteOutcomes : Become(sign_end(Cur, o))

\* ecdsa_sign up to the _send_command of nonce(message, 0x03)
ecdsa_sign_begin(st, slot, message) ==
    nonce_begin([st EXCEPT !.acc = <<slot>>], message, 3, 0)

\* ecdsa_sign after nonce has returned, and after sign has returned
ecdsa_sign_next(st) ==
    IF Len(st.acc) = 1
    THEN sign_begin([st EXCEPT !.acc = <<st.acc[1], "sign">>], st.acc[1])
    ELSE Return(st, st.ret)

Call_ecdsa_sign ==
    /\ pc = "ready"
    /\ \E slot \in SignSlots, message \in SignMessages :
         Become(ecdsa_sign_begin(Enter(Cur, [name |-> "ecdsa_sign",
                                             slot |-> slot,
                                             message |-> message]),
                                 slot, message))

Resume_ecdsa_sign ==
    /\ pc = "ret"
    /\ call.name = "ecdsa_sign"
    /\ Become(ecdsa_sign_next(Cur))

\* ------------------------------------------------------------------------
\* _write, write_config
\* ------------------------------------------------------------------------
\* data[lo:hi] of Python, which stops at the end of data
PySlice(data, lo, hi) == Slice(data, Min(lo, Len(data)), Min(hi, Len(data)))

write_begin_(st, zone, address, buffer) ==
    LET st1 == wakeup(st)
    IN IF Len(buffer) \notin {4, 32}
       THEN Raise(st1, "RuntimeError: Only 4 or 32-byte writes supported.")
       ELSE ToSend(st1, [fn |-> "_write"],
                   Command(18,
                           IF Len(buffer) = 32 THEN BitOr(zone, 128) ELSE zone,
                           address, buffer, 1))

\* _write after its _get_response: the status is not looked at
write_end_(st, o) ==
    LET st1 == idle(st, o)
    IN IF Raised(st1) THEN st1 ELSE ReturnFrom(st1, "_write", None)

Finish_write_ ==
    /\ pc = "finish"
    /\ frame.fn = "_write"
    /\ \E o \in WriteOutcomes : Become(write_end_(Cur, o))

\* The for loop as it would be without the test that skips offset 84
write_config_loop_no_skip(st, data, i) ==
    IF i >= 128
    THEN Return(st, None)
    ELSE write_begin_([st EXCEPT !.acc = <<i>>], 0, i \div 4,
                      PySlice(data, i, i + 4))

\* The for loop of write_config from index i on, up to the next _send_command
RECURSIVE write_config_loop(_, _, _)
write_config_loop(st, data, i) ==
    IF i >= 128
    THEN Return(st, None)
    ELSE IF i = 84
    THEN write_config_loop(st, data, i + 4)
    ELSE write_begin_([st EXCEPT !.acc = <<i>>], 0, i \div 4,
                      PySlice(data, i, i + 4))

Call_write_config ==
    /\ pc = "ready"
    /\ \E data \in ConfigData :
         Become(write_config_loop(Enter(Cur, [name |-> "write_config",
                                              data |-> data]), data, 16))

Resume_write_config ==
    /\ pc = "ret"
    /\ call.name = "write_config"
    /\ Become(write_config_loop(Cur, call.data, acc[1] + 4))

\* ------------------------------------------------------------------------
\* _read, locked, serial_number
\* ------------------------------------------------------------------------
read_begin_(st, zone, address, length) ==
    LET st1 == wakeup(st)
    IN IF length \notin {4, 32}
       THEN Raise(st1, "RuntimeError: Only 4 and 32 byte reads supported")
       ELSE ToSend(st1, [fn |-> "_read"],
                   Command(2,
                           IF length = 32 THEN BitOr(zone, 128) ELSE zone,
                           address, <<>>, length))

read_end_(st, o) ==
    LET st1 == idle(st, o)
    IN IF Raised(st1) THEN st1 ELSE ReturnFrom(st1, "_read", st.payload)

Finish_read_ ==
    /\ pc = "finish"
    /\ frame.fn = "_read"
    /\ \E o \in WriteOutcomes : Become(read_end_(Cur, o))

Call_locked ==
    /\ pc = "ready"
    /\ Become(read_begin_(Enter(Cur, [name |-> "locked"]), 0, 21, 4))

locked_value(config) == config[3] = 0 /\ config[4] = 0

Resume_locked ==
    /\ pc = "ret"
    /\ call.name = "locked"
    /\ Become(Return(Cur, locked_value(ret)))

Call_serial_number ==
    /\ pc = "ready"
    /\ Become(read_begin_([Enter(Cur, [name |-> "serial_number"])
                              EXCEPT !.acc = <<>>], 0, 0, 4))

\* serial_number after each of its three _read calls; the result is kept
\* as the nine bytes that hexlify then prints
serial_number_next(st) ==
    CASE Len(st.acc) = 0 -> read_begin_([st EXCEPT !.acc = st.ret], 0, 2, 4)
      [] Len(st.acc) = 4 -> read_begin_([st EXCEPT !.acc = @ \o st.ret], 0, 3, 4)
      [] OTHER -> Return(st, st.acc \o Slice(st.ret, 0, 1))

Resume_serial_number ==
    /\ pc = "ret"
    /\ call.name = "serial_number"
    /\ Become(serial_number_next(Cur))

\* ------------------------------------------------------------------------
\* wakeup, idle and sleep called by the user
\* ------------------------------------------------------------------------
Call_wakeup ==
    /\ pc = "ready"
    /\ Become(Return(wakeup(Enter(Cur, [name |-> "wakeup"])), None))

Call_idle ==
    /\ pc = "ready"
    /\ \E o \in WriteOutcomes :
         LET st1 == idle(Enter(Cur, [name |-> "idle"]), o)
         IN Become(IF Raised(st1) THEN st1 ELSE Return(st1, None))

Call_sleep ==
    /\ pc = "ready"
    /\ \E o \in WriteOutcomes :
         LET st1 == sleep(Enter(Cur, [name |-> "sleep"]), o)
         IN Become(IF Raised(st1) THEN st1 ELSE Return(st1, None))

Init ==
    /\ pc = "ready"
    /\ call = NoCall
    /\ frame = NoFrame
    /\ cmd = NoCmd
    /\ attempts = 0
    /\ response = <<>>
    /\ payload = <<>>
    /\ ret = None
    /\ acc = <<>>
    /\ result = NoResult
    /\ power = "Idle"
    /\ log = <<>>
    /\ sent = <<>>
    /\ lastRead = NoRead
    /\ chip = "none"
    /\ other = AtRest
    /\ serialized = TRUE

Next ==
    \/ SendCommand
    \/ GetResponseWake
    \/ ReadAttempt
    \/ CheckResponse
    \/ Call_lock
    \/ Finish_lock
    \/ Call_lock_all_zones
    \/ Resume_lock_all_zones
    \/ Call_info
    \/ Finish_info
    \/ Call_version
    \/ Resume_version
    \/ Call_init
    \/ Resume_init
    \/ Call_nonce
    \/ Finish_nonce
    \/ Call_counter
    \/ Finish_counter
    \/ Call_random
    \/ Finish_random_
    \/ Resume_random
    \/ Call_sha_start
    \/ Finish_sha_start
    \/ Call_sha_update
    \/ Finish_sha_update
    \/ Call_sha_digest
    \/ Finish_sha_digest
    \/ Call_gen_key
    \/ Finish_gen_key
    \/ Call_sign
    \/ Finish_sign
    \/ Call_ecdsa_sign
    \/ Resume_ecdsa_sign
    \/ Finish_write_
    \/ Call_write_config
    \/ Resume_write_config
    \/ Finish_read_
    \/ Call_locked
    \/ Resume_locked
    \/ Call_serial_number
    \/ Resume_serial_number
    \/ Call_wakeup
    \/ Call_idle
    \/ Call_sleep

Spec == Init /\ [][Next]_vars
\* ------------------------------------------------------------------------
\* Two callers on one device
\* ------------------------------------------------------------------------
\* The driver holds no lock.  The second caller runs sha_update on the same
\* ATECC object; it is followed through its bus transactions only: the
\* wakeup that opens the method, the command write of _send_command, the
\* read of _get_response and the closing idle().
DriverUnchanged ==
    UNCHANGED <<pc, call, frame, cmd, attempts, response, payload, ret, acc,
                result, log, sent, lastRead, serialized>>

\* With external serialization an operation starts only when the other
\* caller is not inside one
FirstMayStart == serialized => other.pc = "rest"

SecondMayStart == serialized => pc = "ready"

Second_call ==
    /\ other.pc = "rest"
    /\ SecondMayStart
    /\ other' = [pc |-> "send", of |-> "none"]
    /\ power' = "Awake"
    /\ chip' = chip
    /\ DriverUnchanged

Second_send ==
    /\ other.pc = "send"
    /\ \E o \in WriteOutcomes :
         IF o = "oserror"
         THEN other' = [other EXCEPT !.pc = "rest"] /\ chip' = chip
         ELSE other' = [other EXCEPT !.pc = "read"] /\ chip' = "second"
    /\ power' = "Awake"
    /\ DriverUnchanged

Second_read ==
    /\ other.pc = "read"
    /\ other' = [pc |-> "idle", of |-> chip]
    /\ power' = "Awake"
    /\ chip' = chip
    /\ DriverUnchanged

Second_idle ==
    /\ other.pc = "idle"
    /\ other' = [other EXCEPT !.pc = "rest"]
    /\ power' = IF power = "Awake" THEN "Idle" ELSE power
    /\ chip' = chip
    /\ DriverUnchanged

First_sha_update == FirstMayStart /\ Call_sha_update

First_random == FirstMayStart /\ Call_random

InitCallers ==
    /\ pc = "ready"
    /\ call = NoCall
    /\ frame = NoFrame
    /\ cmd = NoCmd
    /\ attempts = 0
    /\ response = <<>>
    /\ payload = <<>>
    /\ ret = None
    /\ acc = <<>>
    /\ result = NoResult
    /\ power = "Idle"
    /\ log = <<>>
    /\ sent = <<>>
    /\ lastRead = NoRead
    /\ chip = "none"
    /\ other = AtRest
    /\ serialized \in BOOLEAN

NextCallers ==
    \/ First_sha_update
    \/ First_random
    \/ SendCommand
    \/ GetResponseWake
    \/ ReadAttempt
    \/ CheckResponse
    \/ Finish_sha_update
    \/ Finish_random_
    \/ Resume_random
    \/ Second_call
    \/ Second_send
    \/ Second_read
    \/ Second_idle

SpecCallers == InitCallers /\ [][NextCallers]_vars

\* ------------------------------------------------------------------------
\* Properties
\* ------------------------------------------------------------------------
Finished == pc = "ready" /\ call.name # "none"

RejectionErrors ==
    {"RuntimeError: CRC Mismatch",
     "AssertionError: Failed locking ATECC!",
     "AssertionError: Error during sha_start.",
     "AssertionError: Error during SHA Update",
     "AssertionError: Incorrectly calculated nonce in pass-thru mode",
     "AssertionError: SHA response length does not match expected length."}

\* C1 as stated: a wakeup precedes every command packet, and every response
\* received is followed by an idle() before the call ends, also when the
\* response is rejected or carries a non-zero status
C1_IdleAfterEveryResponse ==
    /\ \A i \in 1..Len(log) :
         log[i] = "cmd" => \E j \in 1..(i - 1) : log[j] = "wake"
    /\ Finished =>
         \A i \in 1..Len(log) :
           log[i] = "resp" => \E j \in (i + 1)..Len(log) : log[j] = "idle"

\* C1 amended: a wakeup immediately precedes every command packet; what
\* follows a received response within the call is idle() and nothing else;
\* a call that returns normally has idled after each response; and a call
\* that ends right after a response, with no idle(), ended with the error
\* that rejected that response (checksum mismatch or asserted status)
C1_IdleAfterAcceptedResponse ==
    /\ \A i \in 1..Len(log) :
         log[i] = "cmd" => i > 1 /\ log[i - 1] = "wake"
    /\ \A i \in 1..(Len(log) - 1) :
         log[i] = "resp" => log[i + 1] = "idle"
    /\ (Finished /\ result.status = "ok" /\ Len(log) > 0)
         => log[Len(log)] # "resp"
    /\ (Finished /\ Len(log) > 0 /\ log[Len(log)] = "resp")
         => result.status = "error" /\ result.exc \in RejectionErrors
    /\ (Finished /\ result.exc \in RejectionErrors)
         => log[Len(log)] = "resp"

\* A call that received a response, had it rejected, and ended without idle()
C1_Witness ==
    /\ Finished
    /\ call.name = "lock"
    /\ result.exc = "AssertionError: Failed locking ATECC!"
    /\ log = <<"wake", "wake", "cmd", "wake", "resp">>

\* A read attempt is being made, or has just been made, for this command
Polling == pc = "read"

\* C2: polling for one response makes at most 20 reads, each of length + 3
\* bytes; a read failing with OSError is retried, the first read that
\* succeeds ends the polling, any other failure propagates at once, and the
\* 20th OSError ends the call with "Failed to read data from chip"
C2_BoundedPolling ==
    /\ [](Polling => attempts < retries)
    /\ [][Polling =>
            /\ lastRead'.n = cmd.length + 3
            /\ lastRead'.outcome \in {"ok", "oserror", "other"}
            /\ lastRead'.outcome = "ok" =>
                 /\ pc' = "validate"
                 /\ response' # <<>>
                 /\ Len(response') = cmd.length + 3
            /\ lastRead'.outcome = "other" =>
                 /\ pc' = "ready"
                 /\ result'.status = "error"
                 /\ result'.exc = "Exception"
            /\ (lastRead'.outcome = "oserror" /\ attempts < 19) =>
                 /\ pc' = "read"
                 /\ attempts' = attempts + 1
                 /\ result' = result
            /\ (lastRead'.outcome = "oserror" /\ attempts = 19) =>
                 /\ pc' = "ready"
                 /\ result'.status = "error"
                 /\ result'.exc = "RuntimeError: Failed to read data from chip"
            /\ log' # log => log' = Append(log, "resp")
            /\ sent' = sent]_vars
    /\ [][pc' = "read" =>
            \/ pc = "read"
            \/ pc = "wake_resp" /\ attempts' = 0]_vars

\* Twenty reads have failed with OSError and the call has ended with the error
C2_Witness ==
    /\ Finished
    /\ result.exc = "RuntimeError: Failed to read data from chip"
    /\ lastRead.outcome = "oserror"

\* The last two bytes of r are not the checksum of the bytes before them,
\* low byte first
ChecksumDiffers(r) ==
    LET sum == at_crc(SubSeq(r, 1, Len(r) - 2))
    IN r[Len(r) - 1] # sum % 256 \/ r[Len(r)] # sum \div 256

\* C3: a response whose last two bytes (low, high) differ from the checksum
\* the driver recomputes never yields a payload: the call ends with an error
\* whatever the payload is, with no further read and no further command
C3_MismatchIsFatal ==
    /\ [](pc = "finish" => ~ChecksumDiffers(response))
    /\ []((Finished /\ result.status = "ok" /\ response # <<>>)
            => ~ChecksumDiffers(response))
    /\ [][(pc = "validate" /\ ChecksumDiffers(response)) =>
            /\ pc' = "ready"
            /\ result'.status = "error"
            /\ result'.exc = "RuntimeError: CRC Mismatch"
            /\ log' = log
            /\ sent' = sent
            /\ lastRead' = lastRead]_vars

\* A response with its two checksum bytes exchanged has been rejected
C3_Witness ==
    /\ Finished
    /\ result.exc = "RuntimeError: CRC Mismatch"
    /\ Len(response) = 35
    /\ ~ChecksumDiffers([response EXCEPT ![34] = response[35],
                                         ![35] = response[34]])

\* C4: random(rnd_min, rnd_max) called with rnd_min >= rnd_max returns the
\* caller's rnd_min and makes no bus transaction: no wake probe, no command
\* write, no read
C4_DegenerateRangeReturnsMin ==
    (call.name = "random" /\ call.rnd_min >= call.rnd_max) =>
        /\ log = <<>>
        /\ sent = <<>>
        /\ pc = "ready"
        /\ result.status = "ok"
        /\ result.value = call.rnd_min

\* Word address of the k-th write of write_config: 4, 5, ..., 20, 22, ..., 31
ConfigWordAddress(k) == IF k <= 17 THEN k + 3 ELSE k + 4

\* C5: write_config on a 128-byte buffer issues exactly 27 write commands,
\* the k-th carrying the four bytes data[i..i+3] to word address i/4 for
\* i = 16, 20, ..., 124 without 84, in increasing order; no write goes to
\* word addresses 0 to 3 or 21
C5_ConfigWrites ==
    (call.name = "write_config" /\ Len(call.data) = 128) =>
        /\ Len(sent) <= 27
        /\ \A k \in 1..Len(sent) :
             LET a == ConfigWordAddress(k)
             IN /\ sent[k].opcode = 18
                /\ sent[k].param_1 = 0
                /\ sent[k].param_2 = a
                /\ sent[k].data = <<call.data[4 * a + 1], call.data[4 * a + 2],
                                    call.data[4 * a + 3], call.data[4 * a + 4]>>
                /\ sent[k].param_2 \notin {0, 1, 2, 3, 21}
        /\ (pc = "ready" /\ result.status = "ok") => Len(sent) = 27
        /\ (pc = "ready" /\ Len(sent) < 27) => result.status = "error"

\* write_config has returned after its 27th write
C5_Witness ==
    /\ Finished
    /\ call.name = "write_config"
    /\ Len(call.data) = 128
    /\ result.status = "ok"
    /\ Len(sent) = 27
    /\ sent[18].param_2 = 22

InLockAllZones == call.name = "lock_all_zones" /\ pc # "ready"

\* C6: lock_all_zones issues two lock commands, param1 0x80 and then 0x81;
\* the second is sent only after the response to the first has been received
\* with status byte 0, and never once the first lock has failed
C6_LockOrder ==
    /\ [](call.name = "lock_all_zones" =>
            /\ Len(sent) <= 2
            /\ Len(sent) >= 1 =>
                 /\ sent[1].opcode = 23
                 /\ sent[1].param_1 = 128
                 /\ sent[1].param_2 = 0
            /\ Len(sent) = 2 =>
                 /\ sent[2].opcode = 23
                 /\ sent[2].param_1 = 129
                 /\ sent[2].param_2 = 0
                 /\ SubSeq(log, 1, 7) =
                      <<"wake", "wake", "cmd", "wake", "resp", "idle", "wake">>
            /\ (pc = "ready" /\ result.status = "ok") => Len(sent) = 2)
    /\ [][InLockAllZones =>
            /\ (pc' = "ret" /\ pc # "ret") =>
                 /\ pc = "finish"
                 /\ payload = <<0>>
                 /\ ~ChecksumDiffers(response)
            /\ (pc = "finish" /\ payload # <<0>>) =>
                 /\ pc' = "ready"
                 /\ result'.status = "error"
                 /\ sent' = sent
            /\ (pc' = "send" /\ Len(sent) = 1) => pc = "ret"
            /\ Len(sent') = 2 => (Len(sent) = 2 \/ pc = "send")
          ]_vars

\* lock_all_zones has returned after both locks
C6_Witness ==
    /\ Finished
    /\ call.name = "lock_all_zones"
    /\ result.status = "ok"
    /\ Len(sent) = 2

\* C7: gen_key with a slot outside [0, 4] fails before any transmission (no
\* wake probe, no command write, no read, power state unchanged); with a slot
\* in [0, 4] one GenKey command is sent, param1 0x04 for a private key and
\* 0x00 otherwise, param2 the slot
C7_GenKeySlot ==
    /\ [](call.name = "gen_key" =>
            IF call.slot_num < 0 \/ call.slot_num > 4
            THEN /\ pc = "ready"
                 /\ result.status = "error"
                 /\ result.exc = "AssertionError: Provided slot must be between 0 and 4."
                 /\ log = <<>>
                 /\ sent = <<>>
                 /\ lastRead.outcome = "none"
            ELSE /\ Len(sent) <= 1
                 /\ pc \notin {"ready", "send"} => Len(sent) = 1
                 /\ (pc = "ready" /\ result.status = "ok") => Len(sent) = 1
                 /\ \A k \in 1..Len(sent) :
                      /\ sent[k].opcode = 64
                      /\ sent[k].param_1 = (IF call.private_key THEN 4 ELSE 0)
                      /\ sent[k].param_2 = call.slot_num
                      /\ sent[k].data = <<>>)
    /\ [][(call'.name = "gen_key" /\ pc = "ready"
             /\ (call'.slot_num < 0 \/ call'.slot_num > 4))
            => power' = power]_vars

\* gen_key has refused a slot outside [0, 4]
C7_Witness ==
    /\ Finished
    /\ call.name = "gen_key"
    /\ call.slot_num \notin 0..4
    /\ result.status = "error"

\* C8: sha_digest returns a digest of exactly 32 bytes or fails with an
\* error, whatever the bus delivers and with or without a last message chunk
C8_DigestLength ==
    (Finished /\ call.name = "sha_digest") =>
        \/ result.status = "error"
        \/ result.status = "ok" /\ Len(result.value) = 32

\* sha_digest has returned a digest after sending a last message chunk
C8_Witness ==
    /\ Finished
    /\ call.name = "sha_digest"
    /\ result.status = "ok"
    /\ Len(sent) = 1
    /\ Len(sent[1].data) > 0

\* C9 as stated: the second byte of every command packet built, for data of
\* 0 to 128 bytes, is 3 + len(data) + 2
C9_CountIsFivePlusData ==
    \A k \in 1..Len(sent) : sent[k].packet[2] = 3 + Len(sent[k].data) + 2

\* C9 amended: the second byte of every command packet built is the length
\* of the packet less one, 7 + len(data): it counts itself, the opcode,
\* param1, the two bytes of param2, the data and the two checksum bytes
C9_CountIsSevenPlusData ==
    \A k \in 1..Len(sent) :
        /\ Len(sent[k].data) \in 0..128
        /\ Len(sent[k].packet) = 8 + Len(sent[k].data)
        /\ sent[k].packet[2] = 7 + Len(sent[k].data)
        /\ sent[k].packet[2] = Len(sent[k].packet) - 1

\* Packets with no data and with 128 bytes of data have been built
C9_Witness ==
    /\ Len(sent) = 1
    /\ Len(sent[1].data) = 128
    /\ sent[1].packet[2] = 135

\* The two checksum bytes of r, low byte first, are the checksum of body
Carries(r, body) ==
    r[Len(r) - 1] + 256 * r[Len(r)] = at_crc(body)

Accepted == pc = "finish"

Rejected == Finished /\ result.exc = "RuntimeError: CRC Mismatch"

\* C10 as stated: the recomputed checksum covers the response without its
\* leading length byte and its two trailing checksum bytes; the response is
\* accepted exactly when that equals the transmitted checksum (low, high)
C10_ChecksumSkipsLengthByte ==
    /\ Accepted => Carries(response, SubSeq(response, 2, Len(response) - 2))
    /\ Rejected => ~Carries(response, SubSeq(response, 2, Len(response) - 2))

\* C10 amended: the recomputed checksum covers every byte of the response
\* except the two trailing checksum bytes, the leading length byte included;
\* the response is accepted exactly when that equals the transmitted
\* checksum (low, high)
C10_ChecksumCoversLengthByte ==
    /\ Accepted => Carries(response, SubSeq(response, 1, Len(response) - 2))
    /\ Rejected => ~Carries(response, SubSeq(response, 1, Len(response) - 2))

\* A response has been accepted whose checksum is that of all its leading
\* bytes and is not that of the bytes after the length byte
C10_Witness ==
    /\ Accepted
    /\ Len(response) = 7
    /\ Carries(response, SubSeq(response, 1, Len(response) - 2))
    /\ ~Carries(response, SubSeq(response, 2, Len(response) - 2))

\* C11: for rnd_min < rnd_max, random issues one Random command and returns
\* (sum of the 16 bytes taken from the response) mod (rnd_max - rnd_min)
\* + rnd_min, a value in [rnd_min, rnd_max); random(0, 10) on bytes that are
\* all 0x01 returns 6
C11_RandomInCallerRange ==
    [][(pc = "ret" /\ call.name = "random" /\ call.rnd_min < call.rnd_max) =>
         /\ Len(sent) = 1
         /\ sent[1].opcode = 27
         /\ Len(ret) = 16
         /\ result'.status = "ok"
         /\ result'.value = (SumBytes(ret, 16) % (call.rnd_max - call.rnd_min))
                               + call.rnd_min
         /\ result'.value >= call.rnd_min
         /\ result'.value < call.rnd_max
         /\ (call.rnd_min = 0 /\ call.rnd_max = 10 /\ ret = Fill(16, 1))
              => result'.value = 6]_vars

\* The response just accepted is the status byte of an operation that
\* answers with one: lock, sha_start, sha_update, pass-through nonce, and
\* each write of write_config
StatusReceived ==
    /\ pc = "finish"
    /\ \/ frame.fn \in {"lock", "sha_start", "sha_update", "_write"}
       \/ frame.fn = "nonce" /\ frame.mode = 3

\* C12: an operation whose response is a status byte fails with an error
\* surfaced to the caller whenever that byte is not 0, and never returns
\* normally after it
C12_NonZeroStatusFails ==
    [][(StatusReceived /\ payload[1] # 0) =>
         /\ pc' = "ready"
         /\ result'.status = "error"]_vars

\* The arguments of nonce for which the code raises before _send_command
NonceRefused(c) ==
    \/ c.mode \notin {0, 1, 3}
    \/ c.mode \in {0, 1} /\ c.zero = 0 /\ Len(c.data) # 20
    \/ c.mode = 3 /\ Len(c.data) # 32

\* C13: nonce with an unsupported mode or a wrong data length fails before
\* any transmission, with no bus write of any kind and the power state left
\* as it was; otherwise it sends one Nonce command and returns 32 bytes
\* (modes 0 and 1) or a status byte equal to 0 (mode 3)
C13_NonceRefusedBeforeBus ==
    (call.name = "nonce") =>
        IF NonceRefused(call)
        THEN /\ pc = "ready"
             /\ result.status = "error"
             /\ log = <<>>
             /\ sent = <<>>
        ELSE /\ Len(sent) <= 1
             /\ \A k \in 1..Len(sent) :
                  /\ sent[k].opcode = 22
                  /\ sent[k].param_1 = call.mode
                  /\ sent[k].param_2 = call.zero
                  /\ sent[k].data = call.data
             /\ (pc = "ready" /\ result.status = "ok") =>
                  /\ Len(sent) = 1
                  /\ IF call.mode = 3
                     THEN result.value = <<0>>
                     ELSE Len(result.value) = 32

\* Some word slice data[i..i+3] that write_config would write is not 4 bytes
ShortConfig(data) ==
    \E i \in {16 + 4 * k : k \in 0..27} :
        i # 84 /\ Len(PySlice(data, i, i + 4)) # 4

\* C14: write_config on a buffer with a word slice that is not 4 bytes long
\* raises the error before any transmission: no write command has been sent
\* for any word and no bus write has been issued
C14_ShortConfigWritesNothing ==
    (Finished /\ call.name = "write_config" /\ ShortConfig(call.data)
       /\ result.exc = "RuntimeError: Only 4 or 32-byte writes supported.") =>
        /\ sent = <<>>
        /\ log = <<>>

NotFound == "RuntimeError: Failed to find 608 or 508 chip. Please check your wiring."

\* s is a prefix of t
IsPrefix(s, t) == Len(s) <= Len(t) /\ s = SubSeq(t, 1, Len(s))

\* C15: construction wakes the chip, then queries the version (wake, idle,
\* info at mode 0); it succeeds exactly when byte 2 of the info payload is
\* 0x50 or 0x60 and fails with the not-found error for every other value;
\* the version is (payload byte 2 << 8) | payload byte 3
C15_Construction ==
    /\ [](call.name = "__init__" =>
            /\ \/ IsPrefix(log, <<"wake", "wake", "idle", "wake", "wake", "cmd">>)
               \/ IsPrefix(<<"wake", "wake", "idle", "wake", "wake", "cmd">>, log)
            /\ Len(sent) <= 1
            /\ \A k \in 1..Len(sent) :
                 /\ sent[k].opcode = 48
                 /\ sent[k].param_1 = 0
                 /\ sent[k].param_2 = 0
                 /\ sent[k].data = <<>>
            /\ (pc = "ready" /\ result.status = "ok") => Len(sent) = 1)
    /\ [][(pc = "finish" /\ frame.fn = "info" /\ pc' = "ret") =>
            ret' = SubSeq(response, 2, 5)]_vars
    /\ [][(pc = "ret" /\ call.name = "__init__") =>
            /\ pc' = "ready"
            /\ (ret[3] \in {80, 96}) => result'.status = "ok"
            /\ (ret[3] \notin {80, 96}) =>
                 /\ result'.status = "error"
                 /\ result'.exc = NotFound]_vars
    /\ [][(pc = "ret" /\ call.name = "version") =>
            /\ result'.status = "ok"
            /\ result'.value = 256 * ret[3] + ret[4]]_vars

\* Construction has failed with the not-found error after a completed info
\* exchange
C15_Witness ==
    /\ Finished
    /\ call.name = "__init__"
    /\ result.exc = NotFound
    /\ Len(log) > 6
    /\ log[Len(log)] = "idle"

\* A command packet has just been written to the bus
JustSent == pc = "wake_resp" /\ Len(sent) > 0

LastSent == sent[Len(sent)]

\* _get_response accepts the bytes r and returns p
ParsesTo(r, p) ==
    /\ response_crc(r) = response_crc2(r)
    /\ response_payload(r) = p

\* C16 as stated: parsing the bytes built for (opcode, param1, param2, data)
\* succeeds and yields a payload equal to data; the bytes are taken either
\* whole or as they follow the 0x03 marker
C16_RoundTripYieldsData ==
    JustSent =>
        \/ ParsesTo(LastSent.packet, LastSent.data)
        \/ ParsesTo(Tail(LastSent.packet), LastSent.data)

\* C16 amended: parsing the bytes built for (opcode, param1, param2, data),
\* taken from the length byte on, succeeds (the checksum written is the one
\* accepted) and yields opcode, param1, param2 low byte, param2 high byte and
\* then data
C16_RoundTripYieldsCommand ==
    JustSent =>
        ParsesTo(Tail(LastSent.packet),
                 <<LastSent.opcode, LastSent.param_1, LastSent.param_2 % 256,
                   LastSent.param_2 \div 256>> \o LastSent.data)

\* A packet carrying 32 bytes of data has been built and sent
C16_Witness ==
    /\ JustSent
    /\ Len(LastSent.data) = 32
    /\ Len(LastSent.packet) = 40

InEcdsaSign == call.name = "ecdsa_sign" /\ pc # "ready"

\* C18: ecdsa_sign runs the Nonce command in pass-through mode 0x03 with the
\* message and sends the Sign command only after that exchange has ended
\* with status byte 0; when the nonce step fails (message not 32 bytes, read
\* failure, checksum mismatch, non-zero status) no Sign command is sent; on
\* success it returns the 64 bytes answered to the Sign command
C18_NonceThenSign ==
    /\ [](call.name = "ecdsa_sign" =>
            /\ Len(sent) <= 2
            /\ Len(call.message) # 32 =>
                 /\ sent = <<>>
                 /\ pc = "ready"
                 /\ result.status = "error"
            /\ Len(sent) >= 1 =>
                 /\ sent[1].opcode = 22
                 /\ sent[1].param_1 = 3
                 /\ sent[1].param_2 = 0
                 /\ sent[1].data = call.message
            /\ Len(sent) = 2 =>
                 /\ sent[2].opcode = 65
                 /\ sent[2].param_1 = 128
                 /\ sent[2].param_2 = call.slot
                 /\ sent[2].data = <<>>
                 /\ SubSeq(log, 1, 7) =
                      <<"wake", "wake", "cmd", "wake", "resp", "idle", "wake">>
            /\ (pc = "ready" /\ result.status = "ok") =>
                 /\ Len(sent) = 2
                 /\ Len(result.value) = 64)
    /\ [][InEcdsaSign =>
            /\ (pc = "finish" /\ frame.fn = "nonce" /\ pc' = "ret") =>
                 /\ payload = <<0>>
                 /\ ~ChecksumDiffers(response)
            /\ (pc = "finish" /\ frame.fn = "nonce" /\ payload # <<0>>) =>
                 /\ pc' = "ready"
                 /\ result'.status = "error"
                 /\ sent' = sent
            /\ (pc' = "send" /\ Len(sent) = 1) => (pc = "ret" /\ ret = <<0>>)
            /\ Len(sent') = 2 => (Len(sent) = 2 \/ pc = "send")
            /\ (pc = "finish" /\ frame.fn = "sign" /\ pc' = "ret") =>
                 ret' = SubSeq(response, 2, 65)
            /\ (pc = "ret" /\ Len(sent) = 2) =>
                 /\ result'.status = "ok"
                 /\ result'.value = ret
          ]_vars

\* ecdsa_sign has returned a signature after both exchanges
C18_Witness ==
    /\ Finished
    /\ call.name = "ecdsa_sign"
    /\ result.status = "ok"
    /\ Len(sent) = 2
    /\ Len(result.value) = 64

MessagePowers(bytes) ==
    LET N == 8 * Len(bytes)
    IN {N + 15 - j : j \in {i \in 0..(N - 1) :
                              Bit(bytes[(i \div 8) + 1], i % 8) = 1}}

SymDiff(A, B) == (A \ B) \cup (B \ A)

RECURSIVE Remainder(_)
Remainder(E) ==
    IF \A e \in E : e < 16
    THEN E
    ELSE LET m == CHOOSE e \in E : \A f \in E : f <= e
         IN Remainder(SymDiff(E, {m, m - 1, m - 14, m - 16}))

\* The 16-bit value v has exactly the bits of the remainder for bytes
IsChecksumOf(v, bytes) ==
    \A i \in 0..15 : (Bit(v, i) = 1) <=> (i \in Remainder(MessagePowers(bytes)))

\* C20: every command packet written is 0x03, length byte, opcode, param1,
\* param2 low byte, param2 high byte, the data bytes in order, checksum low
\* byte, checksum high byte; the checksum is the 16-bit checksum (polynomial
\* 0x8005, bits least significant first, start value 0, 0 for no bytes) of
\* the bytes from the length byte through the last data byte
C20_PacketLayout ==
    JustSent =>
        LET pkt == LastSent.packet
            n == Len(pkt)
            covered == SubSeq(pkt, 2, n - 2)
            carried == pkt[n - 1] + 256 * pkt[n]
        IN /\ n = 8 + Len(LastSent.data)
           /\ pkt[1] = 3
           /\ pkt[3] = LastSent.opcode
           /\ pkt[4] = LastSent.param_1
           /\ pkt[5] = LastSent.param_2 % 256
           /\ pkt[6] = LastSent.param_2 \div 256
           /\ SubSeq(pkt, 7, n - 2) = LastSent.data
           /\ \A i \in 1..n : pkt[i] \in 0..255
           /\ carried = at_crc(covered)
           /\ Len(LastSent.data) <= 4 => IsChecksumOf(carried, covered)
           /\ at_crc(<<>>) = 0

\* The write of word 22 of the configuration, a packet carrying four data
\* bytes, has been sent
C20_Witness ==
    /\ JustSent
    /\ LastSent.opcode = 18
    /\ LastSent.param_2 = 22
    /\ Len(LastSent.data) = 4
    /\ Len(LastSent.packet) = 12

\* C17: the driver takes no lock.  When the two callers serialize whole
\* operations, every response read answers the command sent by the
\* operation that reads it; the reading of a response to the other caller's
\* command happens only in runs that are not serialized, where the other
\* caller's command write falls between a command and its read
C17_SerializedReadsArePaired ==
    /\ serialized =>
         /\ lastRead.of \in {"none", "first"}
         /\ other.of \in {"none", "second"}
         /\ (pc # "ready" => other.pc = "rest")
         /\ (other.pc # "rest" => pc = "ready")
    /\ (pc \in {"wake_resp", "read"} /\ chip # "first") => ~serialized
    /\ (other.pc = "read" /\ chip # "second") => ~serialized

\* Without serialization, the first caller has sent its command, the second
\* caller's command write has come before the first caller's read, and the
\* first caller has read and accepted the response to the second caller's
\* command
C17_Witness ==
    /\ ~serialized
    /\ pc = "finish"
    /\ frame.fn = "sha_update"
    /\ lastRead.outcome = "ok"
    /\ lastRead.of = "second"
    /\ chip = "second"
    /\ Len(sent) = 1

\* Within the call, a wakeup comes before transaction i of the log with no
\* idle or sleep between the two
AwakeBefore(i) ==
    \E j \in 1..(i - 1) :
        /\ log[j] = "wake"
        /\ \A k \in (j + 1)..(i - 1) : log[k] \notin {"idle", "sleep"}

\* Number of transactions of the given kind among the first n of the log
Count(kind, n) == Cardinality({i \in 1..n : log[i] = kind})

\* Commands are written and responses read only while the chip is Awake, and
\* a command is written once for each exchange whatever the number of reads
AwakeForCommands ==
    /\ [](/\ \A i \in 1..Len(log) :
               log[i] \in {"cmd", "resp"} => AwakeBefore(i)
          /\ pc \in {"wake_resp", "read", "validate", "finish"} =>
               power = "Awake"
          /\ (Len(log) > 0 /\ log[Len(log)] \in {"wake", "cmd", "resp"}) =>
               power = "Awake"
          /\ Count("cmd", Len(log)) = Len(sent)
          /\ \A i \in 1..Len(log) :
               log[i] = "resp" => Count("cmd", i) = Count("resp", i)
          /\ pc = "read" => Count("cmd", Len(log)) = Count("resp", Len(log)) + 1)
    /\ [][pc = "send" => (power' = "Awake" /\ Len(sent') = Len(sent) + 1)]_vars
    /\ [][(pc \in {"wake_resp", "read", "validate", "finish", "ret"}) =>
            (sent' = sent)]_vars
    /\ [][pc = "read" => (power' = "Awake")]_vars

\* C21 as stated: in a serialized run, commands are written and responses
\* read only while the chip is Awake (a wakeup before each, no idle or sleep
\* between), idle() is only ever invoked from Awake, and each command packet
\* is transmitted once per exchange however many reads follow
C21_IdleOnlyFromAwake ==
    /\ AwakeForCommands
    /\ [](\A i \in 2..Len(log) : log[i] = "idle" => AwakeBefore(i))
    /\ [][(pc = "ready" /\ Len(log') > 0 /\ log'[1] = "idle") =>
            (power = "Awake")]_vars

\* C21 amended: as stated, but idle() is invoked from Awake whenever an
\* operation of the driver invokes it; idle() called directly by the user
\* is invoked from whatever state the chip is in
C21_OperationsIdleFromAwake ==
    /\ AwakeForCommands
    /\ [](\A i \in 2..Len(log) : log[i] = "idle" => AwakeBefore(i))
    /\ []((Len(log) > 0 /\ log[1] = "idle") =>
            (call.name = "idle" /\ Len(log) = 1))
    /\ []((Len(log) > 0 /\ call.name \notin {"idle", "sleep"}) =>
            log[1] = "wake")

\* Nineteen reads have failed, the twentieth is due, and the command has
\* been written once, the chip being Awake
C21_Witness ==
    /\ pc = "read"
    /\ attempts = 19
    /\ Len(sent) = 1
    /\ Count("cmd", Len(log)) = 1
    /\ power = "Awake"

====
